---- MODULE Spec2Model ----
(***************************************************************************)
(* Model of plugins/pastetools/filter/image.js (CKEditor 4 paste filter    *)
(* for images): extractFromRtf, createSrcWithBase64, extractTagsFromHtml,  *)
(* handleRtfImages and the entry point CKEDITOR.pasteFilters.image.        *)
(*                                                                         *)
(* Strings are sequences of tokens.  An RTF picture group is the sequence  *)
(* of its control words and payload pieces; an html text is the sequence   *)
(* of its lexical pieces ("<img", " ", "src=", the quote, the pieces of a  *)
(* src value, ">").  The regular expressions of the source are evaluated   *)
(* over these tokens with their greedy, leftmost-match semantics.          *)
(* JavaScript indices are 0-based; the sequences here are 1-based, and     *)
(* the value -1 of indexOf is NotFound.                                    *)
(***************************************************************************)
EXTENDS Integers, Sequences, FiniteSets, TLC

(* ------------------------------ bounds --------------------------------- *)

\* Largest number of picture groups in wholeImages (extraction walk).
MaxGroups == 4

\* Largest number of elements in the pasted html (filter run).
MaxElems == 2

\* Largest number of picture groups in the rtf of a filter run.
MaxRtfGroups == 2

(* ------------------------------ values --------------------------------- *)

\* JavaScript null (an id or a hex that is absent).
Null == "<null>"

\* The value -1 returned by an index search that finds nothing.
NotFound == 0

\* CKEDITOR.pasteFilters.image.supportedImageTypes
supportedImageTypes == <<"image/png", "image/jpeg">>

\* CKEDITOR.pasteFilters.image.recognizableImageTypes, in their order.
recognizableImageTypes ==
  << [marker |-> "\\pngblip",    type |-> "image/png"],
     [marker |-> "\\jpegblip",   type |-> "image/jpeg"],
     [marker |-> "\\emfblip",    type |-> "image/emf"],
     [marker |-> "\\wmetafile8", type |-> "image/wmf"] >>

\* The elements of a sequence.
Range(s) == { s[k] : k \in 1..Len(s) }

\* JavaScript truthiness of a string-or-null value.
Truthy(v) == v # Null /\ v # ""

\* CKEDITOR.tools.array.indexOf( supportedImageTypes, type ) !== -1
isSupported(type) == type \in Range(supportedImageTypes)

(* ------------------------- RTF picture groups -------------------------- *)

\* Whitespace characters (the class \s) among the payload pieces.
Whitespace == { " ", "\n" }

\* Control words and closing pieces a picture group's header can hold.
ControlWords ==
  { "\\pict", "\\pngblip", "\\jpegblip", "\\emfblip", "\\wmetafile8", "\\defshp",
    "\\blipuid 7}", "\\bliptag7" }

\* The capture of /\\blipuid (\w+)\}/ on one piece.
blipUidOf(tok) ==
  CASE tok = "\\blipuid 7}" -> "7"
    [] OTHER -> Null

\* The capture of /\\bliptag(-?\d+)/ on one piece.
blipTagOf(tok) ==
  CASE tok = "\\bliptag7" -> "7"
    [] OTHER -> Null

\* The first capture of a pattern in the group, or Null.
RECURSIVE firstCapture(_, _, _)
firstCapture(image, k, isUid) ==
  IF k > Len(image) THEN Null
  ELSE LET c == IF isUid THEN blipUidOf(image[k]) ELSE blipTagOf(image[k])
       IN  IF c # Null THEN c ELSE firstCapture(image, k + 1, isUid)

\* getImageId: the \blipuid id when there is one, else the \bliptag id.
getImageId(image) ==
  LET blipUidMatch == firstCapture(image, 1, TRUE)
      blipTagMatch == firstCapture(image, 1, FALSE)
  IN  IF blipUidMatch # Null THEN blipUidMatch
      ELSE IF blipTagMatch # Null THEN blipTagMatch
      ELSE Null

\* getImageType: the type of the first recognizable marker found.
RECURSIVE findType(_, _)
findType(imageContent, k) ==
  IF k > Len(recognizableImageTypes) THEN "unknown"
  ELSE IF recognizableImageTypes[k].marker \in Range(imageContent)
       THEN recognizableImageTypes[k].type
       ELSE findType(imageContent, k + 1)

getImageType(imageContent) == findType(imageContent, 1)

\* filter.extractGroupContent: the group without its control-word header.
RECURSIVE extractGroupContent(_)
extractGroupContent(image) ==
  IF image = <<>> THEN <<>>
  ELSE IF Head(image) \in ControlWords THEN extractGroupContent(Tail(image))
       ELSE <<Head(image)>> \o extractGroupContent(Tail(image))

\* content.replace( /\s/g, '' ), the result as one string.
RECURSIVE stripWhitespace(_)
stripWhitespace(content) ==
  IF content = <<>> THEN ""
  ELSE IF Head(content) \in Whitespace THEN stripWhitespace(Tail(content))
       ELSE Head(content) \o stripWhitespace(Tail(content))

\* getImageContent
getImageContent(image) == stripWhitespace(extractGroupContent(image))

\* getImageIndex: the first position of ret holding that id.
getImageIndex(ret, id) ==
  IF id = Null THEN NotFound
  ELSE LET hits == { k \in 1..Len(ret) : ret[k].id = id }
       IN  IF hits = {} THEN NotFound
           ELSE CHOOSE k \in hits : \A m \in hits : k <= m

\* The && chain of line 216: -1 gives false, else the record's hex.
isAlreadyExtracted(ret, imageDataIndex) ==
  imageDataIndex # NotFound /\ Truthy(ret[imageDataIndex].hex)

\* Line 218.
isDuplicated(ret, imageDataIndex, imageType) ==
  /\ isAlreadyExtracted(ret, imageDataIndex)
  /\ ret[imageDataIndex].type = imageType

\* Lines 221-222.
isAlternateFormat(ret, imageDataIndex, imageType) ==
  /\ isAlreadyExtracted(ret, imageDataIndex)
  /\ ret[imageDataIndex].type # imageType
  /\ imageDataIndex = Len(ret)

\* Line 225.
isWordArtShape(currentImage) == "\\defshp" \in Range(currentImage)

\* Lines 238-242.  obj is the identity of the object literal: the number of
\* the loop iteration that allocates it.
newImageData(currentImage, iter) ==
  [ obj  |-> iter,
    id   |-> getImageId(currentImage),
    hex  |-> IF isSupported(getImageType(currentImage))
             THEN getImageContent(currentImage) ELSE Null,
    type |-> getImageType(currentImage) ]

\* Variant of pushDuplicate: a copy of the record is pushed, a new object.
pushCopy(ret, imageDataIndex) ==
  Append(ret, [ ret[imageDataIndex] EXCEPT !.obj = 0 ])

\* ret.push( ret[ imageDataIndex ] ): the same object once more.
pushDuplicate(ret, imageDataIndex) == Append(ret, ret[imageDataIndex])

\* ret.splice( imageDataIndex, 1, newImageData )
splice(ret, imageDataIndex, rec) == [ ret EXCEPT ![imageDataIndex] = rec ]

\* Variant of storeImageData: the record is always pushed.
storeAlwaysPush(ret, imageDataIndex, rec) == Append(ret, rec)

\* Lines 244-248.
storeImageData(ret, imageDataIndex, rec) ==
  IF imageDataIndex # NotFound THEN splice(ret, imageDataIndex, rec)
  ELSE Append(ret, rec)

\* One iteration of the loop of lines 211-249 on wholeImages[ iter ].
loopBody(ret, currentImage, iter) ==
  LET imageType      == getImageType(currentImage)
      imageDataIndex == getImageIndex(ret, getImageId(currentImage))
  IN  IF isDuplicated(ret, imageDataIndex, imageType)
        THEN pushDuplicate(ret, imageDataIndex)
      ELSE IF isAlternateFormat(ret, imageDataIndex, imageType)
              \/ isWordArtShape(currentImage)
        THEN ret
      ELSE storeImageData(ret, imageDataIndex, newImageData(currentImage, iter))

\* extractFromRtf on the located groups, the loop run to its end.
RECURSIVE extractLoop(_, _, _)
extractLoop(ret, wholeImages, iter) ==
  IF iter > Len(wholeImages) THEN ret
  ELSE extractLoop(loopBody(ret, wholeImages[iter], iter), wholeImages, iter + 1)

extractFromRtf(wholeImages) == extractLoop(<<>>, wholeImages, 1)

(* The picture groups the extraction walk is fed: a supported type with a
   payload of no digit (a line break only) or a line-wrapped payload, and an unsupported type; each with or
   without an id (the same id, from \blipuid or from \bliptag), and with or without the WordArt marker. *)

IdPieces == { <<>>, <<"\\blipuid 7}">> }

ShapePieces == { <<>>, <<"\\defshp">> }

Payloads == { <<"\n">>, <<"89", "\n", "50">> }

Groups ==
  { <<"\\pict", "\\pngblip">> \o s \o d \o p :
      s \in ShapePieces, d \in IdPieces, p \in Payloads }
  \cup
  { <<"\\pict", "\\emfblip">> \o s \o d \o <<"4E">> :
      s \in ShapePieces, d \in { <<>>, <<"\\bliptag7">> } }

(* ------------------------------- html ---------------------------------- *)

\* CKEDITOR.tools.convertBytesToBase64( convertHexStringToBytes( hex ) ) on
\* the payloads above.
convertHexToBase64(hex) ==
  CASE hex = "8950" -> "iVA="
    [] hex = "4E"   -> "Tg=="
    [] OTHER        -> ""

\* createSrcWithBase64
createSrcWithBase64(img) ==
  IF ~isSupported(img.type) THEN Null
  ELSE IF img.type # ""
       THEN "data:" \o img.type \o ";base64," \o convertHexToBase64(img.hex)
       ELSE Null

\* CKEDITOR.tools.array.map( hexImages, createSrcWithBase64 )
mapSrc(hexImages) ==
  [ k \in 1..Len(hexImages) |-> createSrcWithBase64(hexImages[k]) ]

\* No piece of h[from..to] is the piece tok (the classes [^>] and [^"]).
noneIs(h, from, to, tok) == \A k \in from..to : h[k] # tok

\* The largest member of a non-empty set of positions.
maxOf(S) == CHOOSE k \in S : \A m \in S : m <= k

\* The smallest member of a non-empty set of positions.
minOf(S) == CHOOSE k \in S : \A m \in S : k <= m

\* /<img[^>]+src="([^"]+)[^>]+/ started on the "<img" at s: the ends the
\* capture can have when src=" is matched at q (at least one piece that is
\* no quote, and a piece that is no ">" left after it).
captureEnds(h, q) ==
  { c \in (q + 2)..(Len(h) - 1) : noneIs(h, q + 2, c, "\"") /\ h[c + 1] # ">" }

\* The places of src=" the scanner's pattern can use from the "<img" at s.
scanSrcPlaces(h, s) ==
  { q \in (s + 2)..(Len(h) - 1) :
      /\ h[q] = "src=" /\ h[q + 1] = "\""
      /\ noneIs(h, s + 1, q - 1, ">")
      /\ captureEnds(h, q) # {} }

\* The starts of a match of the scanner's pattern at or after p.
scanStarts(h, p) ==
  { s \in p..Len(h) : h[s] = "<img" /\ scanSrcPlaces(h, s) # {} }

\* The end of the greedy [^>]+ that starts at position c.
runEnd(h, c) ==
  maxOf({ e \in c..Len(h) : noneIs(h, c, e, ">") })

\* extractTagsFromHtml: regexp.exec in a loop, from lastIndex p on.
RECURSIVE scanFrom(_, _)
scanFrom(h, p) ==
  IF scanStarts(h, p) = {} THEN <<>>
  ELSE LET s == minOf(scanStarts(h, p))
           q == maxOf(scanSrcPlaces(h, s))
           c == maxOf(captureEnds(h, q))
       IN  <<SubSeq(h, q + 2, c)>> \o scanFrom(h, runEnd(h, c + 1) + 1)

extractTagsFromHtml(h) == scanFrom(h, 1)

\* imgTags[ i ].replace( /\\/g, '\\\\' )
RECURSIVE escapePath(_)
escapePath(src) ==
  IF src = <<>> THEN <<>>
  ELSE (IF Head(src) = "\\" THEN <<"\\", "\\">> ELSE <<Head(src)>>)
       \o escapePath(Tail(src))

\* new RegExp( ... + escapedPath ): the atoms of the path part.  A backslash
\* escapes the piece after it; the other pieces of the model's paths hold
\* no regular-expression operator and stand for themselves.
RECURSIVE regexAtoms(_)
regexAtoms(p) ==
  IF p = <<>> THEN <<>>
  ELSE IF Head(p) = "\\" /\ Len(p) >= 2
       THEN (IF p[2] = "\\" THEN <<"\\">> ELSE <<"\\" \o p[2]>>)
            \o regexAtoms(Tail(Tail(p)))
       ELSE <<Head(p)>> \o regexAtoms(Tail(p))

\* The atoms match the pieces of h from position ps on.
pathAt(h, ps, atoms) ==
  /\ ps + Len(atoms) - 1 <= Len(h)
  /\ \A k \in 1..Len(atoms) : h[ps + k - 1] = atoms[k]

\* /(<img [^>]*src=["']?)path/ started on the "<img" at s: the places
\* <<q, ps>> of src= and of the path.
replacePlaces(h, s, atoms) ==
  { pl \in ((s + 2)..Len(h)) \X ((s + 3)..Len(h)) :
      /\ h[pl[1]] = "src="
      /\ noneIs(h, s + 2, pl[1] - 1, ">")
      /\ \/ pl[2] = pl[1] + 2 /\ h[pl[1] + 1] \in { "\"", "'" }
         \/ pl[2] = pl[1] + 1
      /\ pathAt(h, pl[2], atoms) }

\* The starts of a match of the replacement pattern.
replaceStarts(h, atoms) ==
  { s \in 1..(Len(h) - 1) :
      h[s] = "<img" /\ h[s + 1] = " " /\ replacePlaces(h, s, atoms) # {} }

\* html.replace( imgRegex, '$1' + newSrcValue ): the first match only, the
\* path part of it replaced.
replaceFirst(h, atoms, newSrcValue) ==
  IF replaceStarts(h, atoms) = {} THEN h
  ELSE LET s  == minOf(replaceStarts(h, atoms))
           P  == replacePlaces(h, s, atoms)
           q  == maxOf({ pl[1] : pl \in P })
           ps == maxOf({ pl[2] : pl \in { x \in P : x[1] = q } })
       IN  SubSeq(h, 1, ps - 1) \o <<newSrcValue>>
             \o SubSeq(h, ps + Len(atoms), Len(h))

\* Lines 181-184.
replaceSrc(h, src, newSrcValue) ==
  replaceFirst(h, regexAtoms(escapePath(src)), newSrcValue)

\* imgTags[ i ].indexOf( 'file://' ) === 0
isFileUrl(src) == Len(src) >= 1 /\ src[1] = "file://"

\* Variant of failedExtraction: the two counts are exchanged.
failedExtractionSwapped(nRtf, nHtml) ==
  [ code |-> "pastetools-failed-image-extraction",
    rtf |-> nHtml, html |-> nRtf, type |-> "", index |-> 0 ]

\* A report to CKEDITOR.error.
failedExtraction(nRtf, nHtml) ==
  [ code |-> "pastetools-failed-image-extraction",
    rtf |-> nRtf, html |-> nHtml, type |-> "", index |-> 0 ]

unsupportedImage(type, idx) ==
  [ code |-> "pastetools-unsupported-image",
    rtf |-> 0, html |-> 0, type |-> type, index |-> idx ]

\* One iteration of the loop of lines 165-186, i the 1-based index: the
\* html and the reports after it.
rewriteBody(st, imgTags, hexImages, newSrcValues, i) ==
  IF isFileUrl(imgTags[i])
  THEN IF ~Truthy(newSrcValues[i])
       THEN [ html   |-> st.html,
              errors |-> Append(st.errors,
                                unsupportedImage(hexImages[i].type, i - 1)) ]
       ELSE [ html   |-> replaceSrc(st.html, imgTags[i], newSrcValues[i]),
              errors |-> st.errors ]
  ELSE st

RECURSIVE rewriteLoop(_, _, _, _, _)
rewriteLoop(st, imgTags, hexImages, newSrcValues, i) ==
  IF i > Len(imgTags) THEN st
  ELSE rewriteLoop(rewriteBody(st, imgTags, hexImages, newSrcValues, i),
                   imgTags, hexImages, newSrcValues, i + 1)

\* handleRtfImages; the rtf is given by its located picture groups.
handleRtfImages(h, wholeImages, imgTags) ==
  LET hexImages    == extractFromRtf(wholeImages)
      newSrcValues == mapSrc(hexImages)
  IN  IF Len(hexImages) = 0 THEN [ html |-> h, errors |-> <<>> ]
      ELSE IF Len(imgTags) # Len(newSrcValues)
        THEN [ html   |-> h,
               errors |-> <<failedExtraction(Len(hexImages), Len(imgTags))>> ]
      ELSE rewriteLoop([ html |-> h, errors |-> <<>> ],
                       imgTags, hexImages, newSrcValues, 1)

\* handleBlobImages
handleBlobImages(h) == [ html |-> h, errors |-> <<>> ]

\* Variant of imagesDisallowed: the negation of the check is missing.
imagesDisallowedNoNegation(editor) == editor = "allows"

\* editor.activeFilter && !editor.activeFilter.check( 'img[src]' )
imagesDisallowed(editor) == editor = "disallows"

\* CKEDITOR.pasteFilters.image: the html returned and the reports made.
pasteFilterImage(h, editor, rtf) ==
  IF imagesDisallowed(editor) THEN [ html |-> h, errors |-> <<>> ]
  ELSE IF Len(extractTagsFromHtml(h)) = 0 THEN [ html |-> h, errors |-> <<>> ]
  ELSE IF rtf.present THEN handleRtfImages(h, rtf.pict, extractTagsFromHtml(h))
  ELSE handleBlobImages(h)

(* ------------------------------ inputs --------------------------------- *)

\* The src values of the pasted <img> tags: a local file, a local file whose
\* path continues another one (with a Windows path separator), a resolved
\* URL, and a value that itself holds the text src=file://a.
SrcValues ==
  { <<"file://", "a">>, <<"file://", "a", "\\", "b">>,
    <<"http://", "a">>, <<"src=", "file://", "a">> }

imgElement(src) == <<"<img", " ", "src=", "\"">> \o src \o <<"\"", ">">>

\* A VML shape of Word: it has a src and is no <img> tag.
vmlElement(src) == <<"<v:imagedata", " ", "src=", "\"">> \o src \o <<"\"", ">">>

Elements ==
  { imgElement(src) : src \in SrcValues } \cup { vmlElement(<<"file://", "a">>) }

RECURSIVE htmlsOfLen(_)
htmlsOfLen(n) ==
  IF n = 0 THEN { <<>> }
  ELSE { e \o h : e \in Elements, h \in htmlsOfLen(n - 1) }

Htmls == UNION { htmlsOfLen(n) : n \in 0..MaxElems }

\* The picture groups of the rtf of a filter run: a supported image, an
\* unsupported one and a WordArt shape.
FilterGroups ==
  { <<"\\pict", "\\pngblip", "89", "\n", "50">>,
    <<"\\pict", "\\emfblip", "4E">>,
    <<"\\pict", "\\jpegblip", "\\defshp", "4E">> }

RECURSIVE groupSeqsOfLen(_)
groupSeqsOfLen(n) ==
  IF n = 0 THEN { <<>> }
  ELSE { <<g>> \o w : g \in FilterGroups, w \in groupSeqsOfLen(n - 1) }

\* The rtf argument: absent (undefined or ''), or a text with its located
\* picture groups.
Rtfs ==
  { [ present |-> FALSE, pict |-> <<>> ] } \cup
  { [ present |-> TRUE, pict |-> w ] :
      w \in UNION { groupSeqsOfLen(n) : n \in 0..MaxRtfGroups } }

\* The editor: no activeFilter, one that allows img[src], one that does not.
Editors == { "nofilter", "allows", "disallows" }

(* ------------------------------- state ---------------------------------- *)

VARIABLES
  pc,            \* where the filter call stands: start, rtf, loop, done
  input,         \* the html argument as passed
  editor,        \* the editor argument
  rtf,           \* the rtf argument
  html,          \* the local html, rewritten in place; the result when done
  imgTags,       \* extractTagsFromHtml( html )
  hexImages,     \* extractFromRtf( rtf )
  newSrcValues,  \* the data URLs of hexImages
  i,             \* the loop index of handleRtfImages (1-based)
  errors,        \* the reports made to CKEDITOR.error, in order
  epc,           \* where an extractFromRtf call stands: begin, loop, done
  ret,           \* its ret array
  iter,          \* the number of picture groups it has walked
  currentImage,  \* the group of its last iteration
  before         \* ret as that iteration found it

filterVars ==
  <<pc, input, editor, rtf, html, imgTags, hexImages, newSrcValues, i, errors>>

extractVars == <<epc, ret, iter, currentImage, before>>

vars == <<filterVars, extractVars>>

(* --------------------------- extractFromRtf ----------------------------- *)

ExtractIdle ==
  /\ epc = "done" /\ ret = <<>> /\ iter = 0
  /\ currentImage = <<>> /\ before = <<>>

FilterIdle ==
  /\ pc = "done" /\ input = <<>> /\ editor = "nofilter"
  /\ rtf = [ present |-> FALSE, pict |-> <<>> ] /\ html = <<>>
  /\ imgTags = <<>> /\ hexImages = <<>> /\ newSrcValues = <<>>
  /\ i = 0 /\ errors = <<>>

InitExtract ==
  /\ FilterIdle
  /\ epc = "begin" /\ ret = <<>> /\ iter = 0
  /\ currentImage = <<>> /\ before = <<>>

\* Line 207: getGroups found no picture group.
ExtractNoPictures ==
  /\ epc = "begin"
  /\ epc' = "done"
  /\ UNCHANGED <<ret, iter, currentImage, before, filterVars>>

\* Line 211: the loop is entered.
ExtractEnter ==
  /\ epc = "begin"
  /\ epc' = "loop"
  /\ UNCHANGED <<ret, iter, currentImage, before, filterVars>>

\* One iteration on the next group g, the branch taken given by kind.
iterate(g) ==
  /\ epc = "loop"
  /\ iter < MaxGroups
  /\ ret' = loopBody(ret, g, iter + 1)
  /\ iter' = iter + 1
  /\ currentImage' = g
  /\ before' = ret
  /\ UNCHANGED <<epc, filterVars>>

\* Lines 228-232.
IterDuplicate ==
  \E g \in Groups :
    /\ isDuplicated(ret, getImageIndex(ret, getImageId(g)), getImageType(g))
    /\ iterate(g)

\* Lines 234-236.
IterDiscard ==
  \E g \in Groups :
    /\ ~isDuplicated(ret, getImageIndex(ret, getImageId(g)), getImageType(g))
    /\ \/ isAlternateFormat(ret, getImageIndex(ret, getImageId(g)), getImageType(g))
       \/ isWordArtShape(g)
    /\ iterate(g)

\* Lines 238-248.
IterStore ==
  \E g \in Groups :
    /\ ~isDuplicated(ret, getImageIndex(ret, getImageId(g)), getImageType(g))
    /\ ~isAlternateFormat(ret, getImageIndex(ret, getImageId(g)), getImageType(g))
    /\ ~isWordArtShape(g)
    /\ iterate(g)

\* Line 251: the groups are exhausted.
ExtractReturn ==
  /\ epc = "loop"
  /\ epc' = "done"
  /\ UNCHANGED <<ret, iter, currentImage, before, filterVars>>

NextExtract ==
  \/ ExtractNoPictures
  \/ ExtractEnter
  \/ IterDuplicate
  \/ IterDiscard
  \/ IterStore
  \/ ExtractReturn

SpecExtract == InitExtract /\ [][NextExtract]_vars

(* --------------------- CKEDITOR.pasteFilters.image ---------------------- *)

Init ==
  /\ ExtractIdle
  /\ pc = "start"
  /\ input \in Htmls
  /\ html = input
  /\ editor \in Editors
  /\ rtf \in Rtfs
  /\ imgTags = <<>> /\ hexImages = <<>> /\ newSrcValues = <<>>
  /\ i = 0 /\ errors = <<>>

\* Lines 29-31.
FilterDisallowed ==
  /\ pc = "start"
  /\ imagesDisallowed(editor)
  /\ pc' = "done"
  /\ UNCHANGED <<input, editor, rtf, html, imgTags, hexImages, newSrcValues,
                 i, errors, extractVars>>

\* Lines 33-37.
FilterNoTags ==
  /\ pc = "start"
  /\ ~imagesDisallowed(editor)
  /\ Len(extractTagsFromHtml(html)) = 0
  /\ imgTags' = extractTagsFromHtml(html)
  /\ pc' = "done"
  /\ UNCHANGED <<input, editor, rtf, html, hexImages, newSrcValues,
                 i, errors, extractVars>>

\* Line 43.
FilterBlob ==
  /\ pc = "start"
  /\ ~imagesDisallowed(editor)
  /\ Len(extractTagsFromHtml(html)) # 0
  /\ ~rtf.present
  /\ imgTags' = extractTagsFromHtml(html)
  /\ html' = handleBlobImages(html).html
  /\ pc' = "done"
  /\ UNCHANGED <<input, editor, rtf, hexImages, newSrcValues,
                 i, errors, extractVars>>

\* Lines 39-40: handleRtfImages is called.
FilterRtf ==
  /\ pc = "start"
  /\ ~imagesDisallowed(editor)
  /\ Len(extractTagsFromHtml(html)) # 0
  /\ rtf.present
  /\ imgTags' = extractTagsFromHtml(html)
  /\ pc' = "rtf"
  /\ UNCHANGED <<input, editor, rtf, html, hexImages, newSrcValues,
                 i, errors, extractVars>>

\* Lines 143-149.
HandleNoImages ==
  /\ pc = "rtf"
  /\ Len(extractFromRtf(rtf.pict)) = 0
  /\ hexImages' = extractFromRtf(rtf.pict)
  /\ pc' = "done"
  /\ UNCHANGED <<input, editor, rtf, html, imgTags, newSrcValues,
                 i, errors, extractVars>>

\* Lines 151-162.
HandleCountMismatch ==
  /\ pc = "rtf"
  /\ Len(extractFromRtf(rtf.pict)) # 0
  /\ Len(imgTags) # Len(mapSrc(extractFromRtf(rtf.pict)))
  /\ hexImages' = extractFromRtf(rtf.pict)
  /\ newSrcValues' = mapSrc(extractFromRtf(rtf.pict))
  /\ errors' = Append(errors,
                      failedExtraction(Len(extractFromRtf(rtf.pict)), Len(imgTags)))
  /\ pc' = "done"
  /\ UNCHANGED <<input, editor, rtf, html, imgTags, i, extractVars>>

\* Lines 151-165: the counts agree and the loop is entered.
HandleEnterLoop ==
  /\ pc = "rtf"
  /\ Len(extractFromRtf(rtf.pict)) # 0
  /\ Len(imgTags) = Len(mapSrc(extractFromRtf(rtf.pict)))
  /\ hexImages' = extractFromRtf(rtf.pict)
  /\ newSrcValues' = mapSrc(extractFromRtf(rtf.pict))
  /\ i' = 1
  /\ pc' = "loop"
  /\ UNCHANGED <<input, editor, rtf, html, imgTags, errors, extractVars>>

\* One iteration of the loop of lines 165-186.
rewriteStep ==
  /\ pc = "loop"
  /\ i <= Len(imgTags)
  /\ LET st == rewriteBody([ html |-> html, errors |-> errors ],
                           imgTags, hexImages, newSrcValues, i)
     IN  html' = st.html /\ errors' = st.errors
  /\ i' = i + 1
  /\ UNCHANGED <<pc, input, editor, rtf, imgTags, hexImages, newSrcValues,
                 extractVars>>

\* Line 167 is false: the src is no file URL.
LoopSkip ==
  /\ pc = "loop" /\ i <= Len(imgTags)
  /\ ~isFileUrl(imgTags[i])
  /\ rewriteStep

\* Lines 168-175.
LoopUnsupported ==
  /\ pc = "loop" /\ i <= Len(imgTags)
  /\ isFileUrl(imgTags[i]) /\ ~Truthy(newSrcValues[i])
  /\ rewriteStep

\* Lines 181-184.
LoopReplace ==
  /\ pc = "loop" /\ i <= Len(imgTags)
  /\ isFileUrl(imgTags[i]) /\ Truthy(newSrcValues[i])
  /\ rewriteStep

\* Line 188.
LoopReturn ==
  /\ pc = "loop"
  /\ i > Len(imgTags)
  /\ pc' = "done"
  /\ UNCHANGED <<input, editor, rtf, html, imgTags, hexImages, newSrcValues,
                 i, errors, extractVars>>

Next ==
  \/ FilterDisallowed
  \/ FilterNoTags
  \/ FilterBlob
  \/ FilterRtf
  \/ HandleNoImages
  \/ HandleCountMismatch
  \/ HandleEnterLoop
  \/ LoopSkip
  \/ LoopUnsupported
  \/ LoopReplace
  \/ LoopReturn

Spec == Init /\ [][Next]_vars

\* The stepwise run returns what the function computes.
StepwiseAgrees ==
  pc = "done" =>
    /\ html = pasteFilterImage(input, editor, rtf).html
    /\ errors = pasteFilterImage(input, editor, rtf).errors

(* ------------------------ claims: the filter ---------------------------- *)

\* The src values of the <img> tags of the html passed in, and of the html
\* returned.
tagsIn == extractTagsFromHtml(input)

tagsOut == extractTagsFromHtml(html)

\* handleRtfImages ran its loop: the counts agreed.
CountsMatched ==
  /\ pc = "done"
  /\ hexImages # <<>>
  /\ Len(hexImages) = Len(imgTags)

\* C1: when extraction yields a non-empty record list whose length differs
\* from the number of scanned src values, the html returned is the html
\* passed in, and the only report is one pastetools-failed-image-extraction
\* with rtf = the number of records and html = the number of scanned tags.
C1_CountMismatch ==
  (pc = "done" /\ hexImages # <<>> /\ Len(hexImages) # Len(imgTags)) =>
    /\ html = input
    /\ errors = << [ code |-> "pastetools-failed-image-extraction",
                     rtf |-> Len(hexImages), html |-> Len(imgTags),
                     type |-> "", index |-> 0 ] >>

\* C1, its case: one record for two tags, the first of which is a file URL
\* with a data URL at its position.
C1_Witness ==
  /\ pc = "done"
  /\ Len(hexImages) = 1 /\ Len(imgTags) = 2
  /\ isFileUrl(imgTags[1]) /\ Truthy(newSrcValues[1])
  /\ Len(errors) = 1

\* C2: every <img> tag whose scanned src does not begin with file:// has
\* the same src in the html returned as in the html passed in.
C2_NonFileSrcKept ==
  pc = "done" =>
    \A k \in 1..Len(tagsIn) :
      ~isFileUrl(tagsIn[k]) =>
        k <= Len(tagsOut) /\ tagsOut[k] = tagsIn[k]

\* C3: the filter applied to its own result, with the same editor and rtf,
\* returns that result unchanged.
C3_Idempotent ==
  pc = "done" => pasteFilterImage(html, editor, rtf).html = html

\* C6: with matching counts, for every index whose src is a file URL and
\* whose data URL is none, a pastetools-unsupported-image report with the
\* record's type and that index is made, the tag's src in the html returned
\* is the one passed in, and the loop has run over every index.
C6_UnsupportedSkipped ==
  CountsMatched =>
    \A k \in 1..Len(imgTags) :
      (isFileUrl(imgTags[k]) /\ newSrcValues[k] = Null) =>
        /\ [ code |-> "pastetools-unsupported-image", rtf |-> 0, html |-> 0,
             type |-> hexImages[k].type, index |-> k - 1 ] \in Range(errors)
        /\ k <= Len(tagsOut) /\ tagsOut[k] = tagsIn[k]
        /\ i = Len(imgTags) + 1

\* C7: with matching counts, for every index whose src is a file URL and
\* whose data URL is not none, the tag at that index of the html returned
\* has that data URL as its src, and a tag at another index has it only as
\* the data URL of its own record.
C7_Positional ==
  CountsMatched =>
    \A k \in 1..Len(imgTags) :
      (isFileUrl(imgTags[k]) /\ newSrcValues[k] # Null) =>
        /\ k <= Len(tagsOut) /\ tagsOut[k] = <<newSrcValues[k]>>
        /\ \A m \in 1..Len(tagsOut) :
             (m # k /\ newSrcValues[k] \in Range(tagsOut[m])) =>
               (isFileUrl(imgTags[m]) /\ tagsOut[m] = <<newSrcValues[m]>>)

\* C8: the filter returns the html passed in and makes no report when the
\* editor's filter disallows img[src], when the scan finds no src, when the
\* rtf is absent, or when extraction yields no record.
C8_NoOp ==
  ( /\ pc = "done"
    /\ \/ editor = "disallows"
       \/ tagsIn = <<>>
       \/ ~rtf.present
       \/ extractFromRtf(rtf.pict) = <<>> ) =>
    (html = input /\ errors = <<>>)

\* C8, its case: images are allowed, a tag is scanned, the rtf holds
\* picture groups, and none of them gives a record.
C8_Witness ==
  /\ pc = "done"
  /\ editor = "allows"
  /\ \E k \in 1..Len(tagsIn) : isFileUrl(tagsIn[k])
  /\ rtf.present /\ rtf.pict # <<>>
  /\ extractFromRtf(rtf.pict) = <<>>
  /\ html = input

(* ----------------------- claims: extractFromRtf ------------------------- *)

\* An iteration of the extraction loop has run: currentImage is its group,
\* before the output it found, ret the output it left.
Stepped == iter > 0

curId == getImageId(currentImage)

curType == getImageType(currentImage)

\* The position the id lookup finds in the output the iteration found.
curIdx == getImageIndex(before, curId)

\* The hex digits of the group's payload, in order, as one string.
RECURSIVE payloadDigits(_)
payloadDigits(g) ==
  IF g = <<>> THEN ""
  ELSE (IF Head(g) \in { "89", "50", "4E" } THEN Head(g) ELSE "")
       \o payloadDigits(Tail(g))

C5_ShapeDiscarded ==
  (Stepped /\ "\\defshp" \in Range(currentImage)) => ret = before

\* C9: a group that shares its non-none id with the last element of the
\* output, differs from it in type, that element carrying a payload, leaves
\* the output as it was; a group whose id lookup finds a record of another
\* type that is not at the last position is not discarded for that.
C9_AlternateFormat ==
  (Stepped /\ curId # Null /\ before # <<>>) =>
    /\ ( /\ before[Len(before)].id = curId
         /\ before[Len(before)].type # curType
         /\ before[Len(before)].hex \notin { Null, "" } ) => ret = before
    /\ ( /\ curIdx # NotFound /\ curIdx # Len(before)
         /\ before[curIdx].type # curType
         /\ "\\defshp" \notin Range(currentImage) ) => ret # before

\* The record lines 238-242 build for the group of the iteration.
builtRecord ==
  [ obj  |-> iter,
    id   |-> curId,
    hex  |-> IF curType \in { "image/png", "image/jpeg" }
             THEN payloadDigits(currentImage) ELSE Null,
    type |-> curType ]

\* The group is a duplicate, an alternate-format rendition or a shape.
curSkipped ==
  \/ /\ curIdx # NotFound
     /\ before[curIdx].hex \notin { Null, "" }
     /\ \/ before[curIdx].type = curType
        \/ curIdx = Len(before)
  \/ "\\defshp" \in Range(currentImage)

\* C10: a group that is no duplicate, no alternate-format rendition and no
\* shape, and whose id the lookup finds at a position, leaves the output of
\* the same length with the newly built record at that position and every
\* other position unchanged; when the lookup finds nothing (or the id is
\* none) the new record is appended and the earlier positions are unchanged.
C10_OverwriteInPlace ==
  (Stepped /\ ~curSkipped) =>
    IF curIdx # NotFound
    THEN /\ Len(ret) = Len(before)
         /\ ret[curIdx] = builtRecord
         /\ \A j \in 1..Len(before) : j # curIdx => ret[j] = before[j]
    ELSE /\ Len(ret) = Len(before) + 1
         /\ ret[Len(ret)] = builtRecord
         /\ \A j \in 1..Len(before) : ret[j] = before[j]

\* C10, its case: a record with a payload that is not the last one is
\* overwritten by a group of another type with the same id.
C10_Witness ==
  /\ Stepped /\ ~curSkipped
  /\ curIdx # NotFound /\ curIdx < Len(before)
  /\ before[curIdx].hex = "8950"
  /\ ret[curIdx].obj = iter /\ ret[curIdx].hex = Null
  /\ Len(ret) = Len(before)

====
